---- MODULE Spec2Model ----
(***************************************************************************)
(* Model of the InverseMod repository: the four variants of Cody Weber's   *)
(* multiplier/remainder iteration for the modular inverse.                 *)
(*   original   src/README.md (inverseMod.js)                              *)
(*   fixed      src/inverseModFixed.js                                     *)
(*   backtrack  src/gpt5-analysis/code/inverseModBacktrack.gpt5.js         *)
(*   humanized  src/humanized/modularInverse.js                            *)
(* One behaviour picks the inputs (x, y) and runs the four variants one    *)
(* after the other on them, one loop iteration or one dfs step per action. *)
(* JavaScript arrays are 0-based, the sequences here are 1-based: the      *)
(* code's k[i], r[i] are k[i+1], r[i+1] here.  A JavaScript value that may *)
(* be null is a sequence of length at most one: << >> is null, <<v>> is v. *)
(***************************************************************************)
EXTENDS Integers, Sequences, FiniteSets, TLC

VARIABLES x, y, orig, fixed, bt, human, measure

vars == <<x, y, orig, fixed, bt, human, measure>>

\* ---------------------------------------------------------------- bounds
MaxBase == 38
MaxModulus == 38
MaxNeg == 1
SmallDepth == 2
SmallNodes == 4
MaxFairBase == 16
MaxFairModulus == 16
WideModulus == 421
WideBases == {0, 51, 59, 60}

\* ------------------------------------------------------- program constants
FixedMaxIterations == 100
BtMaxIterations == 200
maxBacktracks == 5
maxTweak == 5
DefaultMaxDepth == 64
DefaultMaxNodes == 2000
\* Mutant of multiplierOffsets: a narrower window.
multiplierOffsetsNarrow == <<0, 1>>

multiplierOffsets == <<0, 1, 2, 3>>

\* ---------------------------------------------------------------- helpers
Abs(a) == IF a < 0 THEN -a ELSE a

\* JavaScript a % b: the sign follows the dividend.
JsRem(a, b) == IF a >= 0 THEN a % Abs(b) ELSE -((-a) % Abs(b))

\* Math.floor(a / b) for a >= 0, b > 0.
FloorDiv(a, b) == a \div b

Last(s) == s[Len(s)]

\* ------------------------------------------------ JS numbers in z *= valueK
\* A JS number with a positive integer value is kept as its significand, at
\* most 53 binary digits, times 2^exp.  The significand is a sequence of
\* digits in base 2^15, least significant first, without leading zeros.
SignificandBits == 53

LimbBits == 15

Limb == 2^LimbBits

\* A non-negative integer as its digits in base 2^15.
RECURSIVE NatLimbs(_)
NatLimbs(n) == IF n = 0 THEN <<>> ELSE <<n % Limb>> \o NatLimbs(n \div Limb)

\* The digits of (limbs * m + carry), exactly (m below 2^15).
RECURSIVE MulLimbs(_, _, _)
MulLimbs(limbs, m, carry) ==
    IF limbs = <<>> THEN NatLimbs(carry)
    ELSE LET v == Head(limbs) * m + carry
         IN <<v % Limb>> \o MulLimbs(Tail(limbs), m, v \div Limb)

\* The digits of limbs + 1.
RECURSIVE IncLimbs(_)
IncLimbs(limbs) ==
    IF limbs = <<>> THEN <<1>>
    ELSE IF Head(limbs) < Limb - 1 THEN <<Head(limbs) + 1>> \o Tail(limbs)
    ELSE <<0>> \o IncLimbs(Tail(limbs))

\* The number of binary digits of the value of limbs.
BitLength(limbs) ==
    IF limbs = <<>> THEN 0
    ELSE LET top == limbs[Len(limbs)]
         IN LimbBits * (Len(limbs) - 1)
            + (CHOOSE n \in 1..LimbBits : 2^(n - 1) <= top /\ top < 2^n)

\* The digits of floor(limbs / 2^s), for 0 <= s <= 15.
ShiftRight(limbs, s) ==
    LET moved == [i \in 1..Len(limbs) |->
                    (limbs[i] \div 2^s)
                    + (IF i < Len(limbs)
                       THEN (limbs[i + 1] % 2^s) * 2^(LimbBits - s)
                       ELSE 0)]
    IN IF moved # <<>> /\ moved[Len(moved)] = 0
       THEN SubSeq(moved, 1, Len(moved) - 1)
       ELSE moved

\* The value of the digits modulo b (b below 2^15).
RECURSIVE LimbsMod(_, _)
LimbsMod(limbs, b) ==
    IF limbs = <<>> THEN 0
    ELSE (Limb * LimbsMod(Tail(limbs), b) + Head(limbs)) % b

\* (v * 2^e) mod b
RECURSIVE ShiftMod(_, _, _)
ShiftMod(v, e, b) == IF e = 0 THEN v ELSE ShiftMod((2 * v) % b, e - 1, b)

\* The JS number 1.
JsOne == [limbs |-> <<1>>, exp |-> 0]

\* z * m in IEEE-754 double arithmetic (m a positive integer below 2^15):
\* the exact product, rounded to 53 binary digits, ties to even.
JsTimes(z, m) ==
    LET p == MulLimbs(z.limbs, m, 0)
        s == BitLength(p) - SignificandBits
        low == p[1] % 2^s
        half == 2^(s - 1)
        high == ShiftRight(p, s)
        up == low > half \/ (low = half /\ high[1] % 2 = 1)
        q == IF up THEN IncLimbs(high) ELSE high
    IN IF s <= 0 THEN [limbs |-> p, exp |-> z.exp]
       ELSE IF BitLength(q) > SignificandBits
       THEN [limbs |-> ShiftRight(q, 1), exp |-> z.exp + s + 1]
       ELSE [limbs |-> q, exp |-> z.exp + s]

\* z = 1; for (const valueK of k) z *= valueK (each intermediate z is bound
\* as a value before the next multiplication).
RECURSIVE JsProduct(_, _)
JsProduct(z, k) ==
    IF k = <<>> THEN z
    ELSE CHOOSE product \in {JsProduct(next, Tail(k)) :
                                next \in {JsTimes(z, Head(k))}} : TRUE

\* z % y on a JS number with an integer value (exact, as fmod is).
JsNumberRem(z, b) == ShiftMod(LimbsMod(z.limbs, b), z.exp, b)

\* Mutant of isPositiveInteger: zero is let through (>= for >).
isNonNegativeInteger(v) == v >= 0

\* isPositiveInteger(value) on an integer argument.
isPositiveInteger(v) == v > 0

\* gcd(a, b) of inverseModFixed.js (and its copy in the backtrack file).
RECURSIVE gcd(_, _)
gcd(a, b) == IF b = 0 THEN a ELSE gcd(b, JsRem(a, b))

\* ================================================================ original
\* checkSpecialCases of the original: zero inputs and multiples of y only.
OrigCheckSpecialCases(a, b) ==
    IF a = 0 \/ b = 0 THEN TRUE ELSE JsRem(a, b) = 0

\* Mutant of OrigNextK: k = floor(y / r) + 1 also when r divides y.
OrigNextKAlwaysIncrement(rv, b) == FloorDiv(b, rv) + 1

\* The k rule of the original loop: k = y / r when r divides y.
OrigNextK(rv, b) ==
    IF JsRem(b, rv) = 0 THEN FloorDiv(b, rv) ELSE FloorDiv(b, rv) + 1

\* inverseModFull of the original up to the first evaluation of the loop
\* condition.
OrigSetup(a, b) ==
    IF OrigCheckSpecialCases(a, b)
    THEN [pc |-> "done", k |-> <<>>, r |-> <<>>, n |-> 0, z |-> 0, success |-> TRUE]
    ELSE LET k1 == IF JsRem(a, b) = 0 THEN FloorDiv(b, a) ELSE FloorDiv(b, a) + 1
             r1 == JsRem(a * k1, b)
         IN [pc |-> IF r1 > 1 THEN "loop" ELSE "final",
             k |-> <<k1>>, r |-> <<r1>>, n |-> 1, z |-> 0, success |-> TRUE]

\* One iteration of while (r[n - 1] > 1).
OrigIterate(s, b) ==
    LET kn == OrigNextK(s.r[s.n], b)
        newR == JsRem(s.r[s.n] * kn, b)
    IN [s EXCEPT !.k = Append(s.k, kn), !.r = Append(s.r, newR), !.n = s.n + 1,
                 !.pc = IF newR > 1 THEN "loop" ELSE "final"]

\* z = (k[1] * ... * k[n]) mod y, computed unconditionally.
OrigFinish(s, b) ==
    [s EXCEPT !.z = JsNumberRem(JsProduct(JsOne, s.k), b), !.pc = "done"]

\* =================================================================== fixed
\* Mutant of checkSpecialCases: the coprimality test is left out, as in the
\* original.
checkSpecialCasesNoGcd(a, b) == a = 0 \/ b = 0

\* checkSpecialCases of the fixed version: zero inputs and gcd(x, y) # 1.
checkSpecialCases(a, b) ==
    IF a = 0 \/ b = 0 THEN TRUE ELSE gcd(a, b) # 1

\* Mutant of FixedInitialK: the divides-evenly branch k = y / currentX that
\* the review reports as the x = 1 regression.
FixedInitialKDividesEvenly(currentX, b) ==
    IF JsRem(b, currentX) = 0 THEN FloorDiv(b, currentX)
    ELSE FloorDiv(b, currentX) + 1

\* The initial k of the fixed version: always floor(y / currentX) + 1.
FixedInitialK(currentX, b) == FloorDiv(b, currentX) + 1

\* Mutant of FixedNextK: the loop uses floor(y / prevR) + 1 uniformly.
FixedNextKUniform(prevR, b) == FloorDiv(b, prevR) + 1

\* The k rule of the fixed loop (it keeps the divides-evenly branch).
FixedNextK(prevR, b) ==
    IF JsRem(b, prevR) = 0 THEN FloorDiv(b, prevR) ELSE FloorDiv(b, prevR) + 1

FixedLoopCond(r, n) == r[n] > 1 /\ n < FixedMaxIterations

FixedSetup(a, b) ==
    IF checkSpecialCases(a, b)
    THEN [pc |-> "done", k |-> <<>>, r |-> <<>>, n |-> 0, z |-> 0, success |-> TRUE]
    ELSE LET currentX == JsRem(a, b) IN
         IF currentX = 0
         THEN [pc |-> "done", k |-> <<>>, r |-> <<>>, n |-> 0, z |-> 0, success |-> TRUE]
         ELSE LET k1 == FixedInitialK(currentX, b)
                  r1 == JsRem(currentX * k1, b)
              IN [pc |-> IF FixedLoopCond(<<r1>>, 1) THEN "loop" ELSE "final",
                  k |-> <<k1>>, r |-> <<r1>>, n |-> 1, z |-> 0, success |-> TRUE]

\* Mutant of FixedIterate: the new remainder is computed with the previous
\* multiplier k[n - 1] instead of the one just chosen.
FixedIterateStaleK(s, b) ==
    LET prevR == s.r[s.n]
        kn == FixedNextK(prevR, b)
        newR == JsRem(prevR * s.k[s.n], b)
        k2 == Append(s.k, kn)
        r2 == Append(s.r, newR)
    IN IF newR = 0 \/ newR >= prevR
       THEN [s EXCEPT !.k = k2, !.r = r2, !.pc = "final"]
       ELSE [s EXCEPT !.k = k2, !.r = r2, !.n = s.n + 1,
                      !.pc = IF FixedLoopCond(r2, s.n + 1) THEN "loop" ELSE "final"]

\* One iteration of while (r[n - 1] > 1 && n < maxIterations), with its two
\* breaks (remainder 0, remainder not decreasing).
FixedIterate(s, b) ==
    LET prevR == s.r[s.n]
        kn == FixedNextK(prevR, b)
        newR == JsRem(prevR * kn, b)
        k2 == Append(s.k, kn)
        r2 == Append(s.r, newR)
    IN IF newR = 0 \/ newR >= prevR
       THEN [s EXCEPT !.k = k2, !.r = r2, !.pc = "final"]
       ELSE [s EXCEPT !.k = k2, !.r = r2, !.n = s.n + 1,
                      !.pc = IF FixedLoopCond(r2, s.n + 1) THEN "loop" ELSE "final"]

\* z is computed only when the last remainder is 1, else z = 0.
FixedFinish(s, b) ==
    [s EXCEPT !.z = IF Last(s.r) = 1 THEN JsNumberRem(JsProduct(JsOne, s.k), b)
                    ELSE 0,
              !.pc = "done"]

\* =============================================================== backtrack
\* Mutant of extendedGcd: the coefficients of the recursive result are not
\* swapped.
RECURSIVE extendedGcdUnswapped(_, _)
extendedGcdUnswapped(a, b) ==
    IF b = 0 THEN [x |-> 1, y |-> 0, gcd |-> a]
    ELSE LET result == extendedGcdUnswapped(b, JsRem(a, b))
         IN [x |-> result.x,
             y |-> result.y - FloorDiv(a, b) * result.x,
             gcd |-> result.gcd]

\* Extended Euclidean algorithm: [x, y, gcd] with x * a + y * b = gcd.
RECURSIVE extendedGcd(_, _)
extendedGcd(a, b) ==
    IF b = 0 THEN [x |-> 1, y |-> 0, gcd |-> a]
    ELSE LET result == extendedGcd(b, JsRem(a, b))
         IN [x |-> result.y,
             y |-> result.x - FloorDiv(a, b) * result.y,
             gcd |-> result.gcd]

\* while (k * rValue <= y) k++
RECURSIVE normalizeKForBounds(_, _, _)
normalizeKForBounds(rValue, b, initialK) ==
    IF initialK * rValue <= b THEN normalizeKForBounds(rValue, b, initialK + 1)
    ELSE initialK

\* Mutant of computeNextK: the divides-evenly rule of the fixed variant
\* (k = y / r when r divides y).
computeNextKDividesEvenly(rValue, b) ==
    IF JsRem(b, rValue) = 0 THEN FloorDiv(b, rValue) ELSE FloorDiv(b, rValue) + 1

\* computeNextK: floor(y / r) + 1, then normalised.
computeNextK(rValue, b) == normalizeKForBounds(rValue, b, FloorDiv(b, rValue) + 1)

\* The for loop of recalcRemaindersWithGivenK from index i on; kList is
\* normalised in place, the loop stops at the first remainder 0.
RECURSIVE RecalcFrom(_, _, _, _, _)
RecalcFrom(i, current, b, kList, r) ==
    IF i > Len(kList) THEN [r |-> r, k |-> kList, failedAtZero |-> FALSE]
    ELSE LET prevR == IF i = 1 THEN current ELSE r[i - 1]
             kn == normalizeKForBounds(prevR, b, kList[i])
             newR == JsRem(prevR * kn, b)
             k2 == [kList EXCEPT ![i] = kn]
             r2 == Append(r, newR)
         IN IF newR = 0 THEN [r |-> r2, k |-> k2, failedAtZero |-> TRUE]
            ELSE RecalcFrom(i + 1, current, b, k2, r2)

recalcRemaindersWithGivenK(a, b, kList) ==
    LET current == JsRem(a, b)
    IN IF current = 0 THEN [r |-> <<0>>, k |-> kList, failedAtZero |-> TRUE]
       ELSE RecalcFrom(1, current, b, kList, <<>>)

\* Index of the earliest odd k, 1-based; 0 when there is none (the code
\* returns the 0-based index, or -1).
findEarliestOddKIndex(kList) ==
    LET odd == {i \in 1..Len(kList) : JsRem(kList[i], 2) = 1}
    IN IF odd = {} THEN 0 ELSE CHOOSE i \in odd : \A j \in odd : i <= j

\* The for loop of tryLocalAdjustK from the given tweak on: the first
\* candidate whose remainder is neither 0 nor >= prevR is returned.
RECURSIVE TweakLoop(_, _, _, _)
TweakLoop(prevR, b, currentK, tweak) ==
    IF tweak > maxTweak THEN <<>>
    ELSE LET candidateK == currentK + tweak
             candidateR == JsRem(prevR * candidateK, b)
         IN IF candidateR # 0 /\ candidateR < prevR
            THEN <<[adjustedK |-> candidateK, adjustedR |-> candidateR]>>
            ELSE TweakLoop(prevR, b, currentK, tweak + 1)

\* Mutant of tryLocalAdjustK: a candidate whose remainder equals prevR is
\* accepted (<= for <).
tryLocalAdjustKNonStrict(prevR, b, currentK) ==
    LET good == {t \in 1..maxTweak :
                    /\ JsRem(prevR * (currentK + t), b) # 0
                    /\ JsRem(prevR * (currentK + t), b) <= prevR}
    IN IF good = {} THEN <<>>
       ELSE LET t == CHOOSE u \in good : \A v \in good : u <= v
            IN <<[adjustedK |-> currentK + t,
                  adjustedR |-> JsRem(prevR * (currentK + t), b)]>>

\* tryLocalAdjustK: {adjustedK, adjustedR} of the first acceptable tweak, or
\* null.
tryLocalAdjustK(prevR, b, currentK) == TweakLoop(prevR, b, currentK, 1)

BtLoopCond(r, n) == r[n] > 1 /\ n < BtMaxIterations

\* Mutant of BtReturnZero: an early return reports success = false.
BtReturnZeroFails(k, r) ==
    [pc |-> "done", k |-> k, r |-> r, n |-> Len(r), z |-> 0, success |-> FALSE,
     backtrackCount |-> 0, note |-> <<>>]

\* An early return of the backtrack variant (z = 0), as runInverseMod reports
\* it.
BtReturnZero(k, r) ==
    [pc |-> "done", k |-> k, r |-> r, n |-> Len(r), z |-> 0, success |-> TRUE,
     backtrackCount |-> 0, note |-> <<>>]

\* inverseModFull of the backtrack variant up to the first evaluation of the
\* loop condition.
BtSetup(a, b) ==
    IF checkSpecialCases(a, b) THEN BtReturnZero(<<>>, <<>>)
    ELSE LET xNorm == JsRem(a, b) IN
         IF xNorm = 0 THEN BtReturnZero(<<>>, <<>>)
         ELSE LET kFloor == FloorDiv(b, xNorm)
                  kInc == IF kFloor * xNorm <= b THEN kFloor + 1 ELSE kFloor
                  k1 == normalizeKForBounds(xNorm, b, kInc)
                  newR == JsRem(xNorm * k1, b)
              IN IF newR = 0 THEN BtReturnZero(<<k1>>, <<newR>>)
                 ELSE [pc |-> IF BtLoopCond(<<newR>>, 1) THEN "loop" ELSE "final",
                       k |-> <<k1>>, r |-> <<newR>>, n |-> 1, z |-> 0,
                       success |-> TRUE, backtrackCount |-> 0, note |-> <<>>]

\* One iteration of while (r[n - 1] > 1 && n < maxIterations): local
\* adjustment, the parity backtrack, the gcd-based backtrack, the two breaks.
BtIterate(s, a, b) ==
    LET prevR == s.r[s.n]
        k0 == computeNextK(prevR, b)
        t0 == JsRem(prevR * k0, b)
        trap == t0 = 0 \/ t0 >= prevR \/ (gcd(prevR, b) > 1 /\ JsRem(b, 2) = 0)
        tweak == IF trap THEN tryLocalAdjustK(prevR, b, k0) ELSE <<>>
        kn == IF tweak # <<>> THEN tweak[1].adjustedK ELSE k0
        newR == IF tweak # <<>> THEN tweak[1].adjustedR ELSE t0
        k2 == Append(s.k, kn)
        r2 == Append(s.r, newR)
        idx == findEarliestOddKIndex(k2)
        kBumped == [k2 EXCEPT ![idx] = @ + 2]
        recalc == recalcRemaindersWithGivenK(a, b, SubSeq(kBumped, 1, idx))
        canBacktrack == s.backtrackCount < maxBacktracks /\ idx > 0
        parity == newR = 0 /\ JsRem(b, 2) = 0 /\ JsRem(prevR, 2) = 0 /\ canBacktrack
        general == newR = 0 /\ gcd(prevR, b) > 1 /\ canBacktrack
        Continue(kk, rr) ==
            [s EXCEPT !.k = kk, !.r = rr, !.n = Len(rr),
                      !.backtrackCount = s.backtrackCount + 1,
                      !.pc = IF BtLoopCond(rr, Len(rr)) THEN "loop" ELSE "final"]
    IN IF parity
       THEN IF recalc.failedAtZero THEN Continue(kBumped, recalc.r)
            ELSE Continue(recalc.k, recalc.r)
       ELSE IF general THEN Continue(recalc.k, recalc.r)
       ELSE IF newR = 0 \/ newR >= prevR
       THEN [s EXCEPT !.k = k2, !.r = r2, !.pc = "final"]
       ELSE [s EXCEPT !.k = k2, !.r = r2, !.n = s.n + 1,
                      !.pc = IF BtLoopCond(r2, s.n + 1) THEN "loop" ELSE "final"]

\* Mutant of BtFinish: the product is reduced modulo y + 1.
BtFinishModPlusOne(s, a, b) ==
    [s EXCEPT !.z = IF Last(s.r) = 1
                    THEN JsNumberRem(JsProduct(JsOne, s.k), b + 1) ELSE 0,
              !.pc = "done"]

\* z from the product of k when the last remainder is 1; otherwise z = 0 and
\* the extended-Euclid inverse is only written to the log (note).
BtFinish(s, a, b) ==
    IF Last(s.r) = 1
    THEN [s EXCEPT !.z = JsNumberRem(JsProduct(JsOne, s.k), b), !.pc = "done"]
    ELSE LET eg == extendedGcd(a, b)
             inv == JsRem(eg.x, b)
         IN [s EXCEPT !.z = 0, !.pc = "done",
                      !.note = IF eg.gcd = 1
                               THEN <<IF inv < 0 THEN inv + b ELSE inv>>
                               ELSE <<>>]

\* =============================================================== humanized
\* Euclid's algorithm on the absolute values.
RECURSIVE GcdLoop(_, _)
GcdLoop(valueA, valueB) ==
    IF valueB = 0 THEN valueA ELSE GcdLoop(valueB, JsRem(valueA, valueB))

computeGreatestCommonDivisor(a, b) == GcdLoop(Abs(a), Abs(b))

\* Mutant of ceilDiv: Math.floor of the quotient instead of its ceiling.
ceilDivFloor(numerator, denominator) == FloorDiv(numerator, denominator)

ceilDiv(numerator, denominator) ==
    FloorDiv(numerator + denominator - 1, denominator)

\* options.field ?? default
OrDefault(opt, default) == IF opt = <<>> THEN default ELSE opt[1]

\* Mutant of ReduceProduct: the product is not reduced modulo the modulus.
RECURSIVE ReduceProductUnreduced(_, _, _)
ReduceProductUnreduced(inverse, multipliers, modulus) ==
    IF multipliers = <<>> THEN inverse
    ELSE ReduceProductUnreduced(inverse * Head(multipliers), Tail(multipliers), modulus)

\* (inverse * multiplier) % modulus over the multipliers, from inverse = 1.
RECURSIVE ReduceProduct(_, _, _)
ReduceProduct(inverse, multipliers, modulus) ==
    IF multipliers = <<>> THEN inverse
    ELSE ReduceProduct(JsRem(inverse * Head(multipliers), modulus),
                       Tail(multipliers), modulus)

\* The arguments of one call of dfs; oi = 0 before the call has run its
\* checks, afterwards the index of the next offset its for loop will try.
Frame(currentRemainder, depth, chosenMultipliers, remainderHistory) ==
    [cur |-> currentRemainder, depth |-> depth, multipliers |-> chosenMultipliers,
     remainders |-> remainderHistory, oi |-> 0]

\* The guards of the for loop of dfs on the offset with index j.
OffsetAccepted(currentRemainder, modulus, j) ==
    LET multiplier == ceilDiv(modulus, currentRemainder) + multiplierOffsets[j]
        nextRemainder == JsRem(currentRemainder * multiplier, modulus)
    IN /\ multiplier > 0
       /\ nextRemainder # 0
       /\ nextRemainder < currentRemainder

\* The three shapes of the value computeModularInverse returns.
InvalidResult ==
    [success |-> FALSE, inverse |-> <<>>, method |-> "none", details |-> <<>>,
     reason |-> "Inputs must be integers with modulus > 0"]

\* The reason carries the arguments as they were passed and their gcd.
NoInverseResult(base, modulus, divisor) ==
    [success |-> FALSE, inverse |-> <<>>, method |-> "none", details |-> <<>>,
     reason |-> "No inverse exists; gcd(" \o ToString(base) \o ", "
                \o ToString(modulus) \o ") = " \o ToString(divisor)]

NotFoundResult ==
    [success |-> FALSE, inverse |-> <<>>, method |-> "none", details |-> <<>>,
     reason |-> "Heuristic search did not find an inverse within bounds"]

\* Mutant of WrapHeuristic: a failed search hands the search's inverse (0)
\* through instead of null.
WrapHeuristicPassThrough(heuristic) ==
    [success |-> heuristic.found, inverse |-> <<heuristic.inverse>>,
     method |-> IF heuristic.found THEN "heuristic" ELSE "none",
     details |-> IF heuristic.found
                 THEN <<[multipliers |-> heuristic.multipliers,
                         remainders |-> heuristic.remainders,
                         exploredNodes |-> heuristic.exploredNodes]>>
                 ELSE <<>>]

\* The tail of computeModularInverse: wrap what findInverseWithBacktracking
\* returned.
WrapHeuristic(heuristic) ==
    IF heuristic.found
    THEN [success |-> TRUE, inverse |-> <<heuristic.inverse>>, method |-> "heuristic",
          details |-> <<[multipliers |-> heuristic.multipliers,
                         remainders |-> heuristic.remainders,
                         exploredNodes |-> heuristic.exploredNodes]>>]
    ELSE NotFoundResult

\* The shortcut returns of findInverseWithBacktracking.
ZeroBaseFind ==
    [found |-> FALSE, inverse |-> 0, multipliers |-> <<>>, remainders |-> <<0>>,
     exploredNodes |-> 0]

UnitBaseFind ==
    [found |-> TRUE, inverse |-> 1, multipliers |-> <<1>>, remainders |-> <<1>>,
     exploredNodes |-> 1]

HumanIdle ==
    [pc |-> "call", maxDepth |-> 0, maxNodes |-> 0, exploredNodes |-> 0,
     stack |-> <<>>, searchResult |-> <<>>, find |-> <<>>, result |-> <<>>]

\* measureIterations has not been called.
MeasureIdle == [pc |-> "call", result |-> <<>>]

\* Mutant of HumanStart: the base is not reduced modulo the modulus.
HumanStartUnnormalized(base, modulus, options) ==
    LET normalizedBase == base
        settings == [HumanIdle EXCEPT
                        !.maxDepth = OrDefault(options.maxDepth, DefaultMaxDepth),
                        !.maxNodes = OrDefault(options.maxNodes, DefaultMaxNodes)]
    IN IF modulus <= 0
       THEN [HumanIdle EXCEPT !.pc = "done", !.result = <<InvalidResult>>]
       ELSE IF computeGreatestCommonDivisor(base, modulus) # 1
       THEN [HumanIdle EXCEPT !.pc = "done", !.result =
                <<NoInverseResult(base, modulus,
                                  computeGreatestCommonDivisor(base, modulus))>>]
       ELSE IF normalizedBase = 0
       THEN [settings EXCEPT !.pc = "done", !.find = <<ZeroBaseFind>>,
                             !.result = <<WrapHeuristic(ZeroBaseFind)>>]
       ELSE IF normalizedBase = 1
       THEN [settings EXCEPT !.pc = "done", !.find = <<UnitBaseFind>>,
                             !.result = <<WrapHeuristic(UnitBaseFind)>>]
       ELSE [settings EXCEPT
                !.pc = "dfs",
                !.stack = <<Frame(normalizedBase, 0, <<>>, <<normalizedBase>>)>>]

\* computeModularInverse up to the first call of dfs: validation, gcd gate,
\* the settings, the normalised base and its two shortcuts.
HumanStart(base, modulus, options) ==
    LET normalizedBase == JsRem(JsRem(base, modulus) + modulus, modulus)
        settings == [HumanIdle EXCEPT
                        !.maxDepth = OrDefault(options.maxDepth, DefaultMaxDepth),
                        !.maxNodes = OrDefault(options.maxNodes, DefaultMaxNodes)]
    IN IF modulus <= 0
       THEN [HumanIdle EXCEPT !.pc = "done", !.result = <<InvalidResult>>]
       ELSE IF computeGreatestCommonDivisor(base, modulus) # 1
       THEN [HumanIdle EXCEPT !.pc = "done", !.result =
                <<NoInverseResult(base, modulus,
                                  computeGreatestCommonDivisor(base, modulus))>>]
       ELSE IF normalizedBase = 0
       THEN [settings EXCEPT !.pc = "done", !.find = <<ZeroBaseFind>>,
                             !.result = <<WrapHeuristic(ZeroBaseFind)>>]
       ELSE IF normalizedBase = 1
       THEN [settings EXCEPT !.pc = "done", !.find = <<UnitBaseFind>>,
                             !.result = <<WrapHeuristic(UnitBaseFind)>>]
       ELSE [settings EXCEPT
                !.pc = "dfs",
                !.stack = <<Frame(normalizedBase, 0, <<>>, <<normalizedBase>>)>>]

\* The innermost call of dfs returns null: its caller's for loop goes on, or
\* the search is over.
DfsReturnNull(h, nodes) ==
    LET rest == SubSeq(h.stack, 1, Len(h.stack) - 1)
    IN [h EXCEPT !.exploredNodes = nodes, !.stack = rest,
                 !.pc = IF rest = <<>> THEN "return" ELSE "dfs"]

\* Mutant of DfsEnter: the node budget is tested with > instead of >=.
DfsEnterLateBudget(h) ==
    LET top == Last(h.stack)
    IN IF h.exploredNodes > h.maxNodes THEN DfsReturnNull(h, h.exploredNodes)
       ELSE IF top.cur = 1
       THEN [h EXCEPT !.exploredNodes = h.exploredNodes + 1, !.stack = <<>>,
                      !.pc = "return",
                      !.searchResult = <<[multipliers |-> top.multipliers,
                                          remainders |-> top.remainders]>>]
       ELSE IF top.depth >= h.maxDepth THEN DfsReturnNull(h, h.exploredNodes + 1)
       ELSE [h EXCEPT !.exploredNodes = h.exploredNodes + 1,
                      !.stack[Len(h.stack)].oi = 1]

\* The head of dfs: node budget, node count, success test, depth cap.
DfsEnter(h) ==
    LET top == Last(h.stack)
    IN IF h.exploredNodes >= h.maxNodes THEN DfsReturnNull(h, h.exploredNodes)
       ELSE IF top.cur = 1
       THEN [h EXCEPT !.exploredNodes = h.exploredNodes + 1, !.stack = <<>>,
                      !.pc = "return",
                      !.searchResult = <<[multipliers |-> top.multipliers,
                                          remainders |-> top.remainders]>>]
       ELSE IF top.depth >= h.maxDepth THEN DfsReturnNull(h, h.exploredNodes + 1)
       ELSE [h EXCEPT !.exploredNodes = h.exploredNodes + 1,
                      !.stack[Len(h.stack)].oi = 1]

\* Mutant of DfsTryOffsets: the largest accepted offset is tried, not the
\* smallest.
DfsTryOffsetsLargestFirst(h, modulus) ==
    LET top == Last(h.stack)
        accepted == {j \in top.oi..Len(multiplierOffsets) :
                        OffsetAccepted(top.cur, modulus, j)}
    IN IF accepted = {} THEN DfsReturnNull(h, h.exploredNodes)
       ELSE LET j == CHOOSE u \in accepted : \A v \in accepted : u >= v
                multiplier == ceilDiv(modulus, top.cur) + multiplierOffsets[j]
                nextRemainder == JsRem(top.cur * multiplier, modulus)
            IN [h EXCEPT !.stack =
                    Append([h.stack EXCEPT ![Len(h.stack)].oi = j + 1],
                           Frame(nextRemainder, top.depth + 1,
                                 Append(top.multipliers, multiplier),
                                 Append(top.remainders, nextRemainder)))]

\* The for loop of dfs from offset index oi on: it skips the rejected
\* offsets and calls dfs on the first accepted one, or returns null.
DfsTryOffsets(h, modulus) ==
    LET top == Last(h.stack)
        accepted == {j \in top.oi..Len(multiplierOffsets) :
                        OffsetAccepted(top.cur, modulus, j)}
    IN IF accepted = {} THEN DfsReturnNull(h, h.exploredNodes)
       ELSE LET j == CHOOSE u \in accepted : \A v \in accepted : u <= v
                multiplier == ceilDiv(modulus, top.cur) + multiplierOffsets[j]
                nextRemainder == JsRem(top.cur * multiplier, modulus)
            IN [h EXCEPT !.stack =
                    Append([h.stack EXCEPT ![Len(h.stack)].oi = j + 1],
                           Frame(nextRemainder, top.depth + 1,
                                 Append(top.multipliers, multiplier),
                                 Append(top.remainders, nextRemainder)))]

\* findInverseWithBacktracking after the search, then the tail of
\* computeModularInverse.
HumanFinish(h, base, modulus) ==
    LET initialRemainder == JsRem(JsRem(base, modulus) + modulus, modulus)
        find == IF h.searchResult = <<>>
                THEN [found |-> FALSE, inverse |-> 0, multipliers |-> <<>>,
                      remainders |-> <<initialRemainder>>,
                      exploredNodes |-> h.exploredNodes]
                ELSE [found |-> TRUE,
                      inverse |-> ReduceProduct(1, h.searchResult[1].multipliers, modulus),
                      multipliers |-> h.searchResult[1].multipliers,
                      remainders |-> h.searchResult[1].remainders,
                      exploredNodes |-> h.exploredNodes]
    IN [h EXCEPT !.pc = "done", !.find = <<find>>, !.result = <<WrapHeuristic(find)>>]

\* modularInverse: the inverse, or null.
modularInverse(result) == IF result.success THEN result.inverse ELSE <<>>

\* inverseMod of the fixed version: inverseModFull run to its return, z only.
RECURSIVE FixedRun(_, _)
FixedRun(s, b) ==
    IF s.pc = "loop" THEN FixedRun(FixedIterate(s, b), b)
    ELSE IF s.pc = "final" THEN FixedFinish(s, b)
    ELSE s

FixedInverseMod(a, b) == FixedRun(FixedSetup(a, b), b).z

\* inverseMod of the backtrack version.
RECURSIVE BtRun(_, _, _)
BtRun(s, a, b) ==
    IF s.pc = "loop" THEN BtRun(BtIterate(s, a, b), a, b)
    ELSE IF s.pc = "final" THEN BtFinish(s, a, b)
    ELSE s

BtInverseMod(a, b) == BtRun(BtSetup(a, b), a, b).z

\* computeModularInverse run to its return.
RECURSIVE HumanRun(_, _, _)
HumanRun(h, base, modulus) ==
    IF h.pc = "dfs"
    THEN IF Last(h.stack).oi = 0
         THEN HumanRun(DfsEnter(h), base, modulus)
         ELSE HumanRun(DfsTryOffsets(h, modulus), base, modulus)
    ELSE IF h.pc = "return" THEN HumanFinish(h, base, modulus)
    ELSE h

computeModularInverse(base, modulus, options) ==
    HumanRun(HumanStart(base, modulus, options), base, modulus).result[1]

\* ================================================== PerformanceAnalyzer
\* The while loop of measureIterations and its two returns; the early
\* return on remainder 0 carries no kValues.
RECURSIVE MeasureLoop(_, _, _, _, _)
MeasureLoop(b, k, r, n, iterations) ==
    IF r[n] > 1 /\ n < 100
    THEN LET prevR == r[n]
             kn == IF JsRem(b, prevR) = 0 THEN FloorDiv(b, prevR)
                   ELSE FloorDiv(b, prevR) + 1
             newR == JsRem(prevR * kn, b)
         IN IF newR = 0
            THEN [iterations |-> iterations + 1, success |-> FALSE,
                  remainders |-> <<Append(r, newR)>>, kValues |-> <<>>]
            ELSE MeasureLoop(b, Append(k, kn), Append(r, newR), n + 1,
                             iterations + 1)
    ELSE [iterations |-> iterations, success |-> (Last(r) = 1),
          remainders |-> <<r>>, kValues |-> <<k>>]

\* measureIterations(x, y): x is normalised, the first multiplier follows the
\* divides-evenly rule.
measureIterations(a, b) ==
    LET currentX == JsRem(a, b)
        k1 == IF JsRem(b, currentX) = 0 THEN FloorDiv(b, currentX)
              ELSE FloorDiv(b, currentX) + 1
        r1 == JsRem(currentX * k1, b)
    IN IF currentX = 0
       THEN [iterations |-> 0, success |-> FALSE,
             remainders |-> <<>>, kValues |-> <<>>]
       ELSE MeasureLoop(b, <<k1>>, <<r1>>, 1, 1)

\* ============================================================ state machine
NotStarted == [pc |-> "call", k |-> <<>>, r |-> <<>>, n |-> 0, z |-> 0, success |-> FALSE]

\* runInverseMod's answer to a non-positive input.
Rejected == [pc |-> "rejected", k |-> <<>>, r |-> <<>>, n |-> 0, z |-> 0, success |-> FALSE]

BtNotStarted ==
    [pc |-> "call", k |-> <<>>, r |-> <<>>, n |-> 0, z |-> 0, success |-> FALSE,
     backtrackCount |-> 0, note |-> <<>>]

BtRejected == [BtNotStarted EXCEPT !.pc = "rejected"]

Terminated(s) == s.pc \in {"done", "rejected"}

\* The options a caller passes to computeModularInverse.
OptionValues ==
    {[maxDepth |-> d, maxNodes |-> c] :
        d \in {<<>>, <<SmallDepth>>}, c \in {<<>>, <<SmallNodes>>}}

Init ==
    /\ x \in (-MaxNeg)..MaxBase
    /\ y \in (-MaxNeg)..MaxModulus
    /\ orig = NotStarted
    /\ fixed = NotStarted
    /\ bt = BtNotStarted
    /\ human = HumanIdle
    /\ measure = MeasureIdle

OrigReject ==
    /\ orig.pc = "call"
    /\ ~(isPositiveInteger(x) /\ isPositiveInteger(y))
    /\ orig' = Rejected
    /\ UNCHANGED <<x, y, fixed, bt, human, measure>>

OrigCall ==
    /\ orig.pc = "call"
    /\ isPositiveInteger(x) /\ isPositiveInteger(y)
    /\ orig' = OrigSetup(x, y)
    /\ UNCHANGED <<x, y, fixed, bt, human, measure>>

OrigLoop ==
    /\ orig.pc = "loop"
    /\ orig' = OrigIterate(orig, y)
    /\ UNCHANGED <<x, y, fixed, bt, human, measure>>

OrigEnd ==
    /\ orig.pc = "final"
    /\ orig' = OrigFinish(orig, y)
    /\ UNCHANGED <<x, y, fixed, bt, human, measure>>

FixedReject ==
    /\ Terminated(orig) /\ fixed.pc = "call"
    /\ ~(isPositiveInteger(x) /\ isPositiveInteger(y))
    /\ fixed' = Rejected
    /\ UNCHANGED <<x, y, orig, bt, human, measure>>

FixedCall ==
    /\ Terminated(orig) /\ fixed.pc = "call"
    /\ isPositiveInteger(x) /\ isPositiveInteger(y)
    /\ fixed' = FixedSetup(x, y)
    /\ UNCHANGED <<x, y, orig, bt, human, measure>>

FixedLoop ==
    /\ fixed.pc = "loop"
    /\ fixed' = FixedIterate(fixed, y)
    /\ UNCHANGED <<x, y, orig, bt, human, measure>>

FixedEnd ==
    /\ fixed.pc = "final"
    /\ fixed' = FixedFinish(fixed, y)
    /\ UNCHANGED <<x, y, orig, bt, human, measure>>

BtReject ==
    /\ Terminated(fixed) /\ bt.pc = "call"
    /\ ~(isPositiveInteger(x) /\ isPositiveInteger(y))
    /\ bt' = BtRejected
    /\ UNCHANGED <<x, y, orig, fixed, human, measure>>

BtCall ==
    /\ Terminated(fixed) /\ bt.pc = "call"
    /\ isPositiveInteger(x) /\ isPositiveInteger(y)
    /\ bt' = BtSetup(x, y)
    /\ UNCHANGED <<x, y, orig, fixed, human, measure>>

BtLoop ==
    /\ bt.pc = "loop"
    /\ bt' = BtIterate(bt, x, y)
    /\ UNCHANGED <<x, y, orig, fixed, human, measure>>

BtEnd ==
    /\ bt.pc = "final"
    /\ bt' = BtFinish(bt, x, y)
    /\ UNCHANGED <<x, y, orig, fixed, human, measure>>

HumanCall ==
    /\ Terminated(bt) /\ human.pc = "call"
    /\ \E options \in OptionValues : human' = HumanStart(x, y, options)
    /\ UNCHANGED <<x, y, orig, fixed, bt, measure>>

HumanDfsEnter ==
    /\ human.pc = "dfs"
    /\ Last(human.stack).oi = 0
    /\ human' = DfsEnter(human)
    /\ UNCHANGED <<x, y, orig, fixed, bt, measure>>

HumanDfsLoop ==
    /\ human.pc = "dfs"
    /\ Last(human.stack).oi > 0
    /\ human' = DfsTryOffsets(human, y)
    /\ UNCHANGED <<x, y, orig, fixed, bt, measure>>

HumanReturn ==
    /\ human.pc = "return"
    /\ human' = HumanFinish(human, x, y)
    /\ UNCHANGED <<x, y, orig, fixed, bt, measure>>

\* analyzeRange calls measureIterations with 1 <= x < y; here it is called on
\* every pair of positive integers, after the four inverse computations.
MeasureCall ==
    /\ human.pc = "done" /\ measure.pc = "call"
    /\ isPositiveInteger(x) /\ isPositiveInteger(y)
    /\ measure' = [pc |-> "done", result |-> <<measureIterations(x, y)>>]
    /\ UNCHANGED <<x, y, orig, fixed, bt, human>>

Next ==
    \/ OrigReject \/ OrigCall \/ OrigLoop \/ OrigEnd
    \/ FixedReject \/ FixedCall \/ FixedLoop \/ FixedEnd
    \/ BtReject \/ BtCall \/ BtLoop \/ BtEnd
    \/ HumanCall \/ HumanDfsEnter \/ HumanDfsLoop \/ HumanReturn
    \/ MeasureCall

Spec == Init /\ [][Next]_vars

\* The same calls on inputs whose multiplier products leave the range of
\* exactly represented integers.
WideInit ==
    /\ x \in WideBases
    /\ y = WideModulus
    /\ orig = NotStarted
    /\ fixed = NotStarted
    /\ bt = BtNotStarted
    /\ human = HumanIdle
    /\ measure = MeasureIdle

WideSpec == WideInit /\ [][Next]_vars

\* The same calls on a smaller range of inputs.
FairInit ==
    /\ x \in (-MaxNeg)..MaxFairBase
    /\ y \in (-MaxNeg)..MaxFairModulus
    /\ orig = NotStarted
    /\ fixed = NotStarted
    /\ bt = BtNotStarted
    /\ human = HumanIdle
    /\ measure = MeasureIdle

\* The calls are synchronous, single-threaded code: a call that has a next
\* statement executes it.
FairSpec == FairInit /\ [][Next]_vars /\ WF_vars(Next)

\* ================================================================== claims
Divides(d, a) == a % d = 0

\* The exact product of the multipliers modulo b, reduced at every factor.
RECURSIVE ProductMod(_, _)
ProductMod(k, b) ==
    IF k = <<>> THEN 1 % b ELSE ((Head(k) % b) * ProductMod(Tail(k), b)) % b

\* The greatest common divisor of two positive integers, by definition.
MathGcd(a, b) ==
    CHOOSE d \in 1..a : /\ Divides(d, a) /\ Divides(d, b)
                        /\ \A e \in 1..a : (Divides(e, a) /\ Divides(e, b)) => e <= d

Coprime(a, b) == MathGcd(a, b) = 1

HumanDone == human.pc = "done"

\* computeModularInverse was called without options.
DefaultRun ==
    human.maxDepth = DefaultMaxDepth /\ human.maxNodes = DefaultMaxNodes

C2_CoprimalityGate ==
    (x >= 1 /\ y >= 1 /\ MathGcd(x, y) > 1) =>
        /\ fixed.pc \in {"call", "done"}
        /\ fixed.k = <<>> /\ fixed.r = <<>> /\ fixed.z = 0
        /\ bt.pc \in {"call", "done"}
        /\ bt.k = <<>> /\ bt.r = <<>> /\ bt.z = 0
        /\ human.pc \in {"call", "done"}
        /\ human.stack = <<>> /\ human.exploredNodes = 0 /\ human.find = <<>>
        /\ HumanDone =>
              /\ human.result[1].success = FALSE
              /\ human.result[1].inverse = <<>>
              /\ human.result[1].method = "none"

C2_Witness ==
    /\ x >= 1 /\ y >= 1 /\ MathGcd(x, y) > 1 /\ JsRem(x, y) # 0
    /\ fixed.pc = "done" /\ bt.pc = "done" /\ HumanDone

\* C3 (as claimed): for every coprime pair with modulus > 1 the caller gets a
\* valid inverse: computeModularInverse returns success and the backtrack
\* inverseModFull never returns z = 0.
C3_GuaranteedTotality ==
    (x >= 1 /\ y > 1 /\ Coprime(x, y)) =>
        /\ bt.pc = "done" => (bt.z # 0 /\ (bt.z * x) % y = 1)
        /\ HumanDone =>
              /\ human.result[1].success
              /\ human.result[1].inverse # <<>>
              /\ (human.result[1].inverse[1] * x) % y = 1

\* C4: for a coprime pair (modulus >= 1) on which the search finds no path,
\* computeModularInverse returns exactly {success: false, inverse: null,
\* method: 'none', details: null} with the not-found reason, and the fixed
\* and backtrack loops end with z = 0.
C4_ExhaustionIsAResult ==
    (x >= 1 /\ y >= 1 /\ Coprime(x, y)) =>
        /\ (HumanDone /\ human.find # <<>> /\ ~human.find[1].found) =>
              human.result[1] = NotFoundResult
        /\ (fixed.pc = "done" /\ (fixed.r = <<>> \/ Last(fixed.r) # 1)) => fixed.z = 0
        /\ (bt.pc = "done" /\ (bt.r = <<>> \/ Last(bt.r) # 1)) => bt.z = 0

\* The node cap ends the search of a coprime pair on which the fixed and
\* the backtrack loops fail as well.
C4_Witness ==
    /\ x >= 1 /\ y >= 2 /\ Coprime(x, y)
    /\ HumanDone /\ human.find # <<>> /\ ~human.find[1].found
    /\ human.find[1].exploredNodes = human.maxNodes
    /\ Last(fixed.r) # 1 /\ Last(bt.r) # 1

\* C5 (as claimed): every trace findInverseWithBacktracking returns has one
\* remainder more than multipliers, and every remainder is in [0, modulus).
C5_TraceParallelism ==
    (HumanDone /\ y >= 1 /\ human.find # <<>>) =>
        LET trace == human.find[1]
        IN /\ Len(trace.remainders) = Len(trace.multipliers) + 1
           /\ \A i \in 1..Len(trace.remainders) :
                 0 <= trace.remainders[i] /\ trace.remainders[i] < y

\* C6: for base 1 and every modulus > 1 each variant returns inverse 1; the
\* first step never produces remainder 0 when the value it starts from
\* divides the modulus.
C6_UnitBase ==
    /\ (x = 1 /\ y > 1) =>
          /\ orig.pc = "done" => orig.z = 1
          /\ fixed.pc = "done" => fixed.z = 1
          /\ bt.pc = "done" => bt.z = 1
          /\ HumanDone => modularInverse(human.result[1]) = <<1>>
    /\ (x >= 1 /\ y > 1 /\ JsRem(x, y) # 0 /\ Divides(JsRem(x, y), y)) =>
          /\ Len(orig.r) >= 1 => orig.r[1] # 0
          /\ Len(fixed.r) >= 1 => fixed.r[1] # 0
          /\ Len(bt.r) >= 1 => bt.r[1] # 0

C6_Witness ==
    /\ x = 1 /\ y > 1 /\ HumanDone
    /\ orig.z = 1 /\ fixed.z = 1 /\ bt.z = 1 /\ fixed.r = <<1>>

\* The scenarios the humanized test asserts: <<base, modulus, inverse>>.
AssertedScenarios ==
    {<<3, 7, 5>>, <<8, 5, 2>>, <<31, 37, 6>>, <<1, 10, 1>>, <<5, 12, 5>>}

\* C7: called without options, the humanized module succeeds with method
\* 'heuristic' on the asserted scenarios and returns exactly the asserted
\* inverses.
C7_AssertedScenarios ==
    \A s \in AssertedScenarios :
        (x = s[1] /\ y = s[2] /\ HumanDone /\ DefaultRun) =>
            /\ human.result[1].success
            /\ human.result[1].method = "heuristic"
            /\ modularInverse(human.result[1]) = <<s[3]>>

C7_Witness ==
    /\ x = 5 /\ y = 12 /\ HumanDone /\ DefaultRun
    /\ human.result[1].details[1].multipliers = <<5>>

\* C8: on the coprime pair (5, 12) the fixed loop, which takes k = y / r
\* after the first step, ends at remainder 0 and returns z = 0, while the
\* humanized backtracking search returns success with inverse 5.
C8_KnownIncompleteness ==
    (x = 5 /\ y = 12) =>
        /\ fixed.pc = "done" =>
              fixed.k = <<3, 4>> /\ Last(fixed.r) = 0 /\ fixed.z = 0
        /\ (HumanDone /\ DefaultRun) =>
              human.result[1].success /\ human.result[1].inverse = <<5>>

C8_Witness ==
    /\ x = 5 /\ y = 12 /\ Coprime(x, y)
    /\ fixed.pc = "done" /\ fixed.r = <<3, 0>>
    /\ HumanDone /\ DefaultRun /\ human.result[1].success

\* C9 (as claimed): the fixed runInverseMod returns a valid inverse for every
\* coprime pair with y > 1, and z = 5 for (5, 12).
C9_FixedAlwaysSucceeds ==
    (x >= 1 /\ y > 1 /\ Coprime(x, y) /\ fixed.pc = "done") =>
        /\ (fixed.z * x) % y = 1
        /\ (x = 5 /\ y = 12) => fixed.z = 5

\* The pairs of targetedParityCases.
ParityCases ==
    {<<5, 12>>, <<7, 12>>, <<11, 14>>, <<9, 20>>, <<9, 14>>, <<5, 16>>,
     <<7, 16>>, <<9, 16>>, <<11, 16>>, <<5, 18>>, <<7, 18>>, <<11, 18>>,
     <<13, 18>>, <<11, 20>>, <<13, 20>>, <<17, 20>>}

\* C10 (as claimed): on every pair of the parity test the backtrack
\* runInverseMod returns a valid inverse, 5 for (5, 12) and 7 for (7, 12).
C10_ParityTrapResolved ==
    (<<x, y>> \in ParityCases /\ bt.pc = "done") =>
        /\ (bt.z * x) % y = 1
        /\ (x = 5 /\ y = 12) => bt.z = 5
        /\ (x = 7 /\ y = 12) => bt.z = 7

\* C11 (as claimed): for every x >= 1, y >= 1 with gcd(x, y) > 1 the
\* original runInverseMod returns z = 0.
C11_OriginalReturnsZero ==
    (x >= 1 /\ y >= 1 /\ MathGcd(x, y) > 1 /\ orig.pc = "done") => orig.z = 0

\* C12 (as claimed): every step i of the original, with previous value p
\* (x for step 1, r[i-1] afterwards), has y < p * k[i] < p + y, and from
\* step 2 on r[i] < r[i-1].
C12_DocumentedBounds ==
    \A i \in 1..Len(orig.k) :
        LET p == IF i = 1 THEN x ELSE orig.r[i - 1]
        IN /\ y < p * orig.k[i]
           /\ p * orig.k[i] < p + y
           /\ i >= 2 => orig.r[i] < orig.r[i - 1]

\* C13: for x <= 0 or y <= 0 the runInverseMod of the original, the fixed and
\* the backtrack version returns its rejection (success false, z = 0) and
\* never enters inverseModFull: no k and no r is ever produced.
C13_RejectsNonPositive ==
    (x <= 0 \/ y <= 0) =>
        \A s \in {orig, fixed, bt} :
            /\ s.pc \in {"call", "rejected"}
            /\ s.k = <<>> /\ s.r = <<>> /\ s.z = 0
            /\ s.pc = "rejected" => ~s.success

C13_Witness ==
    /\ x = 0 /\ y = 5
    /\ orig.pc = "rejected" /\ fixed.pc = "rejected" /\ bt.pc = "rejected"
    /\ ~orig.success /\ ~fixed.success /\ ~bt.success

\* C14 (as claimed): for every base <= 0 or modulus <= 0,
\* computeModularInverse returns the invalid-input failure, without computing
\* the gcd and without running the search.
C14_ValidatesBothInputs ==
    ((x <= 0 \/ y <= 0) /\ HumanDone) =>
        /\ human.result = <<InvalidResult>>
        /\ human.find = <<>>

\* C15 (as claimed): on every successful result the inverse is the product
\* of the recorded multipliers modulo the modulus, with the final remainder
\* equal to 1: in the humanized module inverse = product(multipliers) mod
\* modulus, and in the fixed and the backtrack version, whenever the final
\* remainder is 1, z = product(k) mod y.
C15_InverseIsProduct ==
    /\ (HumanDone /\ human.result[1].success) =>
          LET d == human.result[1].details[1]
          IN /\ human.result[1].inverse = <<ProductMod(d.multipliers, y)>>
             /\ Last(d.remainders) = 1
    /\ \A s \in {fixed, bt} :
          (s.pc = "done" /\ x >= 1 /\ y >= 1 /\ s.r # <<>> /\ Last(s.r) = 1) =>
              /\ Len(s.k) = Len(s.r)
              /\ s.z = ProductMod(s.k, y)

\* A step of a k/r trace that does not strictly decrease the remainder (or
\* reaches 0), counting the seed x mod y as r[0].
C16_BadStep(s, i) ==
    LET prev == IF i = 1 THEN JsRem(x, y) ELSE s.r[i - 1]
    IN s.r[i] = 0 \/ s.r[i] >= prev

\* C16 (as claimed): counting the seed r[0] = base mod modulus, every accepted
\* step has 0 < r' < r; a step with r' >= r or r' = 0 is the last of its
\* path, and the path fails.
C16_StrictDecrease ==
    /\ \A s \in {fixed, bt} :
          \A i \in 1..Len(s.r) :
              C16_BadStep(s, i) =>
                  /\ i = Len(s.r)
                  /\ s.pc # "loop"
                  /\ s.pc = "done" => (s.z * x) % y # 1
    /\ \A f \in 1..Len(human.stack) :
          \A i \in 2..Len(human.stack[f].remainders) :
              /\ 0 < human.stack[f].remainders[i]
              /\ human.stack[f].remainders[i] < human.stack[f].remainders[i - 1]
    /\ (HumanDone /\ human.result[1].success) =>
          LET rem == human.result[1].details[1].remainders
          IN \A i \in 2..Len(rem) : 0 < rem[i] /\ rem[i] < rem[i - 1]

\* k and r of one variant are consistent with each other and with x.
C17_Consistent(s) ==
    /\ Len(s.k) = Len(s.r)
    /\ \A i \in 1..Len(s.k) :
          s.r[i] = ((IF i = 1 THEN x % y ELSE s.r[i - 1]) * s.k[i]) % y
    /\ s.k # <<>> => (ProductMod(s.k, y) * (x % y)) % y = Last(s.r)

\* C17: in every reachable state of inverseModFull of the original, the fixed
\* and the backtrack version, k and r have equal length, r[0] is
\* ((x mod y) * k[0]) mod y, r[i] is (r[i-1] * k[i]) mod y, and so
\* (product(k) * x) mod y is the last remainder.
C17_TraceConsistency ==
    C17_Consistent(orig) /\ C17_Consistent(fixed) /\ C17_Consistent(bt)

C17_Witness ==
    /\ x = 11 /\ y = 14
    /\ bt.pc = "loop" /\ bt.k = <<2, 4>> /\ bt.r = <<8, 4>>
    /\ fixed.k = <<2, 2, 7>> /\ fixed.r = <<8, 2, 0>>
    /\ Len(orig.k) >= 2

\* The budgets: iterations of the fixed and the backtrack loop, backtracks,
\* explored nodes and recursion depth of the humanized search.
C18_Budgets ==
    /\ Len(fixed.k) - 1 <= 99 /\ fixed.n <= 100
    /\ Len(bt.k) - 1 <= 200 /\ bt.n <= 200 /\ bt.backtrackCount <= 5
    /\ human.maxNodes <= 2000 /\ human.maxDepth <= 64
    /\ human.exploredNodes <= human.maxNodes
    /\ human.find # <<>> => human.find[1].exploredNodes <= human.maxNodes
    /\ \A f \in 1..Len(human.stack) :
          /\ human.stack[f].depth = Len(human.stack[f].multipliers)
          /\ human.stack[f].depth <= human.maxDepth
    /\ human.searchResult # <<>> =>
          Len(human.searchResult[1].multipliers) <= human.maxDepth

\* A loop stopped by its iteration cap returns z = 0.
C18_IterationCapFails ==
    /\ (fixed.pc = "done" /\ fixed.n >= 100 /\ Last(fixed.r) > 1) => fixed.z = 0
    /\ (bt.pc = "done" /\ bt.n >= 200 /\ Last(bt.r) > 1) => bt.z = 0

\* The search runs with its node budget used up: the next call of dfs is
\* refused.
C18_NodeCapHit ==
    human.pc = "dfs" /\ human.exploredNodes >= human.maxNodes

\* The call of dfs about to run is at the depth cap, not at remainder 1.
C18_DepthCapHit ==
    /\ human.pc = "dfs" /\ human.exploredNodes < human.maxNodes
    /\ Last(human.stack).oi = 0 /\ Last(human.stack).cur # 1
    /\ Last(human.stack).depth >= human.maxDepth

C18_NoSuccess ==
    /\ human.searchResult = <<>>
    /\ human.result # <<>> => ~human.result[1].success

C18_AllReturned ==
    Terminated(orig) /\ Terminated(fixed) /\ Terminated(bt) /\ HumanDone

\* C18 (as claimed): every call terminates within its budget, and hitting
\* any cap (iterations, nodes, depth) produces a failure result.
C18_AnyCapFails ==
    /\ []C18_Budgets
    /\ []C18_IterationCapFails
    /\ [](C18_NodeCapHit => []C18_NoSuccess)
    /\ [](C18_DepthCapHit => []C18_NoSuccess)
    /\ <>C18_AllReturned

\* The call of dfs that hits the depth cap returns null to its caller.
C18_DepthCapStep ==
    (C18_DepthCapHit /\ human' # human) =>
        /\ human'.searchResult = <<>>
        /\ Len(human'.stack) = Len(human.stack) - 1

\* C18 (amended): every call terminates within its budget; a loop stopped by
\* its iteration cap and a search that used up its node budget return a
\* failure, while the call of dfs that hits the depth cap returns null for
\* its path only.
C18_TerminatesWithinBudget ==
    /\ []C18_Budgets
    /\ []C18_IterationCapFails
    /\ [](C18_NodeCapHit => []C18_NoSuccess)
    /\ [][C18_DepthCapStep]_vars
    /\ <>C18_AllReturned

C18_Witness ==
    /\ x = 5 /\ y = 6 /\ HumanDone
    /\ human.maxNodes < DefaultMaxNodes
    /\ human.find # <<>> /\ human.find[1].exploredNodes = human.maxNodes
    /\ ~human.result[1].success
    /\ fixed.pc = "done" /\ bt.pc = "done"

IsPrime(n) == n > 1 /\ \A d \in 2..(n - 1) : n % d # 0

\* C19 (as claimed): for every prime modulus y and every 1 <= x < y, the
\* original and the fixed runInverseMod return success with a z such that
\* (z * x) mod y = 1.
C19_PrimeModulus ==
    (IsPrime(y) /\ 1 <= x /\ x < y) =>
        /\ orig.pc = "done" => orig.success /\ (orig.z * x) % y = 1
        /\ fixed.pc = "done" => fixed.success /\ (fixed.z * x) % y = 1

\* Tweak t is acceptable for tryLocalAdjustK(prevR, b, k).
C20_Good(prevR, b, k, t) ==
    /\ 0 < (prevR * (k + t)) % b
    /\ (prevR * (k + t)) % b < prevR

\* What tryLocalAdjustK(prevR, b, k) has to return.
C20_SmallestTweak(prevR, b, k) ==
    LET res == tryLocalAdjustK(prevR, b, k)
    IN IF \A t \in 1..5 : ~C20_Good(prevR, b, k, t)
       THEN res = <<>>
       ELSE \E t \in 1..5 :
               /\ C20_Good(prevR, b, k, t)
               /\ \A u \in 1..(t - 1) : ~C20_Good(prevR, b, k, u)
               /\ res = <<[adjustedK |-> k + t,
                           adjustedR |-> (prevR * (k + t)) % b]>>

\* One iteration of the backtrack loop: the function is correct on the
\* current remainder for every k, and when the iteration appends another
\* multiplier than computeNextK's it appends the adjustment and leaves the
\* earlier entries alone.
C20_Step ==
    (bt.pc = "loop" /\ bt' # bt) =>
        LET prevR == bt.r[bt.n]
            k0 == computeNextK(prevR, y)
            res == tryLocalAdjustK(prevR, y, k0)
        IN /\ \A k \in 1..(y + 1) : C20_SmallestTweak(prevR, y, k)
           /\ Last(bt'.k) # k0 =>
                 /\ res # <<>>
                 /\ bt'.k = Append(bt.k, res[1].adjustedK)
                 /\ bt'.r = Append(bt.r, res[1].adjustedR)

\* C20: tryLocalAdjustK(prevR, y, k) returns the smallest t in 1..5 with
\* 0 < (prevR * (k + t)) mod y < prevR together with that remainder, or null
\* when there is none; applied in the backtrack loop it changes only the
\* multiplier and remainder of the current step.
C20_LocalAdjust == [][C20_Step]_vars

C20_Witness ==
    /\ x = 11 /\ y = 14 /\ bt.pc = "done"
    /\ bt.k = <<2, 4, 4, 8>> /\ bt.r = <<8, 4, 2, 2>>
    /\ computeNextK(8, 14) = 2
    /\ tryLocalAdjustK(8, 14, 2) = <<[adjustedK |-> 4, adjustedR |-> 4]>>

\* The remainder after multiplying cur by ceil(y / cur) + d, modulo y.
C21_NextRemainder(cur, d) == (cur * (((y + cur - 1) \div cur) + d)) % y

\* Offset d is accepted at remainder cur: the next remainder is strictly
\* between 0 and cur.
C21_Accepted(cur, d) ==
    0 < C21_NextRemainder(cur, d) /\ C21_NextRemainder(cur, d) < cur

\* Remainder 1 can be reached from cur in at most left accepted steps.
RECURSIVE C21_Solvable(_, _)
C21_Solvable(cur, left) ==
    \/ cur = 1
    \/ /\ left > 0
       /\ \E d \in 0..3 :
             C21_Accepted(cur, d) /\ C21_Solvable(C21_NextRemainder(cur, d), left - 1)

\* C21: in every trace the humanized depth-first search finds, each
\* multiplier is ceil(modulus / previous remainder) + d with d in 0..3, and
\* an offset d is used at a level only if every smaller offset at that level
\* was rejected or its whole subtree failed; the search fails only when no
\* such path reaches remainder 1.
C21_FirstDepthFirstPath ==
    /\ (/\ HumanDone /\ human.maxNodes = DefaultMaxNodes
        /\ human.find # <<>> /\ ~human.find[1].found
        /\ human.find[1].remainders[1] > 1) =>
           ~C21_Solvable(human.find[1].remainders[1], human.maxDepth)
    /\ (/\ HumanDone /\ human.maxNodes = DefaultMaxNodes
        /\ human.result[1].success
        /\ human.result[1].details[1].remainders[1] > 1) =>
        LET mult == human.result[1].details[1].multipliers
            rem == human.result[1].details[1].remainders
        IN /\ Len(rem) = Len(mult) + 1
           /\ rem[Len(rem)] = 1
           /\ \A i \in 1..Len(mult) :
                 LET d == mult[i] - ((y + rem[i] - 1) \div rem[i])
                 IN /\ d \in 0..3
                    /\ C21_Accepted(rem[i], d)
                    /\ rem[i + 1] = C21_NextRemainder(rem[i], d)
                    /\ \A e \in 0..(d - 1) :
                          \/ ~C21_Accepted(rem[i], e)
                          \/ ~C21_Solvable(C21_NextRemainder(rem[i], e),
                                           human.maxDepth - i)

C21_Witness ==
    /\ x = 5 /\ y = 12 /\ HumanDone /\ DefaultRun
    /\ human.result[1].details[1].multipliers = <<5>>
    /\ human.result[1].details[1].remainders = <<5, 1>>
    /\ C21_Accepted(5, 0) /\ ~C21_Solvable(3, 63)

\* g is the greatest common divisor of the non-negative integers a and b
\* (0 for a = b = 0).
C22_IsGcd(g, a, b) ==
    IF a = 0 /\ b = 0 THEN g = 0
    ELSE /\ g >= 1 /\ Divides(g, a) /\ Divides(g, b)
         /\ \A e \in 1..(a + b) : (Divides(e, a) /\ Divides(e, b)) => e <= g

\* C22: for all a >= 0 and b >= 0, extendedGcd(a, b) returns (x, y, gcd)
\* with x * a + y * b = gcd and gcd the greatest common divisor; when the
\* backtrack variant fails on a coprime pair with modulus > 1, the normalised
\* coefficient it reports is an inverse of a modulo b in [0, b).
C22_ExtendedGcd ==
    /\ (x >= 0 /\ y >= 0) =>
          LET eg == extendedGcd(x, y)
          IN /\ eg.x * x + eg.y * y = eg.gcd
             /\ C22_IsGcd(eg.gcd, x, y)
    /\ (/\ x >= 1 /\ y > 1 /\ Coprime(x, y)
        /\ bt.pc = "done" /\ bt.r # <<>> /\ Last(bt.r) # 1) =>
          /\ bt.note # <<>>
          /\ bt.note[1] \in 0..(y - 1)
          /\ (bt.note[1] * x) % y = 1

C22_Witness ==
    /\ x = 3 /\ y = 4 /\ bt.pc = "done" /\ bt.z = 0
    /\ extendedGcd(3, 4) = [x |-> -1, y |-> 1, gcd |-> 1]
    /\ bt.note = <<3>>

\* C23: the result depends only on base mod modulus: for x >= 1 and y >= 1
\* the fixed and the backtrack inverseMod and the humanized modularInverse
\* return on (x, y) what they return on (x mod y, y), and when x mod y = 0
\* all of them report no inverse.
C23_DependsOnResidue ==
    (x >= 1 /\ y >= 1 /\ HumanDone) =>
        /\ fixed.z = FixedInverseMod(x % y, y)
        /\ bt.z = BtInverseMod(x % y, y)
        /\ \A options \in OptionValues :
              (human.find = <<>> \/
               (/\ human.maxDepth = OrDefault(options.maxDepth, DefaultMaxDepth)
                /\ human.maxNodes = OrDefault(options.maxNodes, DefaultMaxNodes))) =>
                  modularInverse(human.result[1]) =
                      modularInverse(computeModularInverse(x % y, y, options))
        /\ x % y = 0 =>
              /\ fixed.z = 0 /\ bt.z = 0
              /\ modularInverse(human.result[1]) = <<>>

C23_Witness ==
    /\ x = 29 /\ y = 9 /\ HumanDone /\ DefaultRun
    /\ fixed.z = 5 /\ FixedInverseMod(2, 9) = 5
    /\ bt.z = 5 /\ BtInverseMod(2, 9) = 5
    /\ modularInverse(human.result[1]) = <<5>>
    /\ modularInverse(computeModularInverse(2, 9, [maxDepth |-> <<>>, maxNodes |-> <<>>])) = <<5>>

\* The digits of the exact product of limbs and the multipliers of k.
RECURSIVE C24_ExactLimbs(_, _)
C24_ExactLimbs(limbs, k) ==
    IF k = <<>> THEN limbs
    ELSE C24_ExactLimbs(MulLimbs(limbs, Head(k), 0), Tail(k))

\* The product of k stays below 2^53 (and so below 2^63) and z is the exact
\* product modulo y.
C24_Exact(k, z) ==
    LET exact == C24_ExactLimbs(<<1>>, k)
    IN /\ BitLength(exact) <= 53
       /\ BitLength(exact) <= 63
       /\ z = LimbsMod(exact, y)

\* C24 (as claimed): the product of the accepted multipliers is evaluated
\* without overflow or precision loss: it stays below 2^53 in the JS variants
\* (below 2^63 in the Go one) and the returned z is the exact product mod y.
C24_NoOverflow ==
    /\ (orig.pc = "done" /\ orig.k # <<>>) => C24_Exact(orig.k, orig.z)
    /\ (fixed.pc = "done" /\ fixed.r # <<>> /\ Last(fixed.r) = 1) =>
          C24_Exact(fixed.k, fixed.z)
    /\ (bt.pc = "done" /\ bt.r # <<>> /\ Last(bt.r) = 1) => C24_Exact(bt.k, bt.z)

\* C25: the backtrack variant and the fixed variant return the same z for
\* every pair of positive integers, on success (the same inverse) and on
\* failure (both 0).
C25_BacktrackEqualsFixed ==
    (x >= 1 /\ y >= 1 /\ fixed.pc = "done" /\ bt.pc = "done") =>
        /\ bt.z = fixed.z
        /\ (bt.z # 0) = (fixed.z # 0)

C25_Witness ==
    /\ x = 3 /\ y = 7
    /\ fixed.pc = "done" /\ fixed.k = <<3, 4>> /\ fixed.z = 5
    /\ bt.pc = "done" /\ bt.k = <<3, 4>> /\ bt.z = 5

\* C26: on a coprime pair the backtrack variant never records a remainder 0,
\* so neither backtrack branch is taken: backtrackCount stays 0 in every
\* state and the multiplier list is never rewritten by
\* recalcRemaindersWithGivenK.
C26_NoBacktrack ==
    (x >= 1 /\ y >= 1 /\ Coprime(x, y)) =>
        /\ \A i \in 1..Len(bt.r) : bt.r[i] # 0
        /\ bt.backtrackCount = 0
        /\ Len(bt.k) = Len(bt.r)

\* A coprime run through the trap: the remainders 4 and 2 share a factor with
\* 6, the local adjustment picks k = 5, and the loop ends without a 0.
C26_Witness ==
    /\ x = 5 /\ y = 6 /\ bt.pc = "done"
    /\ bt.k = <<2, 5, 4>> /\ bt.r = <<4, 2, 2>>
    /\ bt.backtrackCount = 0

\* The number of loop iterations the original has run: every multiplier but
\* the first comes from the loop.
C27_Iterations == Len(orig.k) - 1

\* At most r[0] - 1 loop iterations (r[0] is orig.r[1] here).
C27_Bound ==
    (x >= 1 /\ y >= 1 /\ orig.r # <<>>) =>
        /\ orig.r[1] >= 1
        /\ C27_Iterations <= orig.r[1] - 1

\* A loop iteration yields remainder 0, and then the previous remainder
\* divides y, or a remainder strictly between 0 and the previous one.
C27_LoopStep ==
    (x >= 1 /\ y >= 1 /\ orig.pc = "loop" /\ orig' # orig) =>
        LET prev == Last(orig.r)
            new == Last(orig'.r)
        IN /\ Len(orig'.r) = Len(orig.r) + 1
           /\ \/ new = 0 /\ Divides(prev, y)
              \/ 0 < new /\ new < prev

\* C27: the original algorithm, which has no iteration cap, terminates for
\* all x >= 1 and y >= 1: every loop iteration yields remainder 0 (the
\* previous remainder divides y) or a strictly smaller positive remainder, the
\* loop runs at most r[0] - 1 iterations, and the call returns (a pair of
\* positive integers is never rejected).
C27_OriginalTerminates ==
    /\ []C27_Bound
    /\ [][C27_LoopStep]_vars
    /\ []((x >= 1 /\ y >= 1) => orig.pc # "rejected")
    /\ <>(orig.pc \in {"done", "rejected"})

\* 5 mod 7: remainders 3, 2, 1, two loop iterations, the bound r[0] - 1 = 2 is
\* met exactly.
C27_Witness ==
    /\ x = 5 /\ y = 7 /\ orig.pc = "done"
    /\ orig.k = <<2, 3, 4>> /\ orig.r = <<3, 2, 1>>
    /\ C27_Iterations = orig.r[1] - 1

\* The computation of a variant found no inverse: a special case, or a last
\* remainder other than 1.
C28_NoInverseFound(s) == s.r = <<>> \/ Last(s.r) # 1

\* C28: for every pair of positive integers runInverseMod of the original,
\* the fixed and the backtrack variant returns success = true whatever the
\* computation did (gcd > 1, x a multiple of y, a failed search); in the
\* fixed and the backtrack variant a failure shows only as z = 0.
C28_SuccessAlways ==
    (x >= 1 /\ y >= 1) =>
        /\ orig.pc # "rejected" /\ fixed.pc # "rejected" /\ bt.pc # "rejected"
        /\ orig.pc = "done" => orig.success
        /\ fixed.pc = "done" =>
              /\ fixed.success
              /\ C28_NoInverseFound(fixed) => fixed.z = 0
        /\ bt.pc = "done" =>
              /\ bt.success
              /\ C28_NoInverseFound(bt) => bt.z = 0

\* gcd(4, 6) = 2: the fixed and the backtrack variant return early, the
\* original runs into remainder 0; all three report success.
C28_Witness ==
    /\ x = 4 /\ y = 6 /\ bt.pc = "done"
    /\ orig.success /\ Last(orig.r) = 0
    /\ fixed.success /\ fixed.z = 0 /\ fixed.r = <<>>
    /\ bt.success /\ bt.z = 0 /\ bt.r = <<>>

\* C29 (as claimed): for every coprime pair (x, y) with y >= 2,
\* measureIterations(x, y).success is true exactly when the original
\* inverseMod(x, y) returns z with (z * x) mod y = 1.
C29_MeasureFaithful ==
    (x >= 1 /\ y >= 2 /\ Coprime(x, y)
        /\ orig.pc = "done" /\ measure.pc = "done") =>
        (measure.result[1].success <=> (orig.z * x) % y = 1)

\* InverseModFixed.inverseMod(x, y) returned a valid inverse, on a path the
\* depth budget of the humanized search admits.
C30_FixedSolves ==
    /\ fixed.pc = "done"
    /\ (fixed.z * x) % y = 1
    /\ Len(fixed.k) <= DefaultMaxDepth

====
